---------------------------- MODULE Spec2Model ----------------------------
(***************************************************************************)
(* A model of collider/collider.py: spheres that move under gravity,       *)
(* bounce off the four side walls and off each other, react chemically     *)
(* (oxygen + nitrogen -> NO) and relax towards a thermal speed, driven by  *)
(* Simulation.update().                                                    *)
(*                                                                         *)
(* Numbers.  The program computes in IEEE doubles.  The simulation         *)
(* (specification Spec) is modelled in fixed point: a real r is the        *)
(* integer r * Scale, one unit being 0.001, the program's gravity and its  *)
(* finest constant.  Every division and square root rounds to that grid,   *)
(* and products precede quotients so that one rounding is at most one      *)
(* unit.  A not-a-number (0/0 in numpy) is the flag nan of a sphere: the   *)
(* only place that produces one makes all of x, y, vx, vy of both spheres  *)
(* not-a-number at once, and every comparison with one is false.           *)
(* The elastic response alone (specification SpecElastic) is also modelled *)
(* in exact rational arithmetic, on pairs whose centre distance is         *)
(* rational, to state conservation laws and distances as equalities.       *)
(***************************************************************************)
EXTENDS Integers, Sequences, FiniteSets, TLC

VARIABLES
    width, height, temperature,  \* Simulation.width, .height, .temperature
    spheres,                     \* Simulation.spheres, a list of spheres
    pc, ph, i, j,                \* position inside Simulation.update()
    tick,                        \* completed calls of update()
    pre, last,                   \* history: the list before the last step, and that step
    tickIds, moved, early,       \* history of the current tick: the list at its
    flips, banished,             \* start, moves, early reads, wall flips, banished
    pair, pair0, epc             \* SpecElastic: the pair, its inputs, its position

vars == <<width, height, temperature, spheres, pc, ph, i, j, tick,
          pre, last, tickIds, moved, early, flips, banished, pair, pair0, epc>>

(***************************************************************************)
(* Bounds of the model.                                                    *)
(***************************************************************************)
MaxSpheres == 3
MaxTicks == 2
MaxCoord == 4

(***************************************************************************)
(* Fixed-point numbers.                                                    *)
(***************************************************************************)
Scale == 1000

Abs(a) == IF a < 0 THEN -a ELSE a

Max(a, b) == IF a < b THEN b ELSE a

\* a / b for b > 0, rounded to the nearest unit (ties away from zero).
RDiv(a, b) ==
    IF a >= 0 THEN (2 * a + b) \div (2 * b) ELSE -((2 * (-a) + b) \div (2 * b))

RECURSIVE ISqrtIter(_, _, _)
ISqrtIter(n, lo, hi) ==
    IF hi - lo <= 1 THEN lo
    ELSE LET mid == (lo + hi) \div 2
         IN  IF mid * mid <= n THEN ISqrtIter(n, mid, hi) ELSE ISqrtIter(n, lo, mid)

\* The integer part of the square root of n, 0 <= n < 2^31.
ISqrt(n) == ISqrtIter(n, 0, 46341)

\* np.sqrt(dx**2 + dy**2): the integer part while both squares fit 32-bit
\* integers, and on a grid k times coarser beyond that.
Distance(dx, dy) ==
    LET m == Max(Abs(dx), Abs(dy))
        k == (m \div 32768) + 1
    IN  k * ISqrt((Abs(dx) \div k) * (Abs(dx) \div k) + (Abs(dy) \div k) * (Abs(dy) \div k))

\* dx / hypot(dx, dy), (dx, dy) # (0, 0): the vector is scaled up before the
\* root is taken, so that the quotient is exact to its last digit.
UnitComponent(dx, dx2, dy2) ==
    LET m == Max(Abs(dx2), Abs(dy2))
        f == IF m < 16384 THEN 16384 \div m ELSE 1
    IN  RDiv(f * dx * Scale, Distance(f * dx2, f * dy2))

(***************************************************************************)
(* The species table: oxygen, nitrogen, nitric_oxide.                      *)
(***************************************************************************)
Atoms == {"oxygen", "nitrogen", "NO"}

Reactive == {"oxygen", "nitrogen"}

AtomPartner(a) ==
    CASE a = "oxygen" -> "nitrogen"
      [] a = "nitrogen" -> "oxygen"
      [] OTHER -> "None"

AtomActivation(a) == IF a = "NO" THEN 0 ELSE 200

AtomRadius(a) ==
    CASE a = "oxygen" -> 16
      [] a = "nitrogen" -> 14
      [] OTHER -> 22

\* Molecule.mass is None for the three species: Sphere takes radius**2.
AtomMass(a) == AtomRadius(a) * AtomRadius(a)

\* gravity=0.001, the default every sphere of a Simulation gets.
Gravity == Scale \div 1000

\* other.x = other.y = -1000
Sentinel == (-1000) * Scale

(***************************************************************************)
(* Sphere and ChemicalSphere.  id stands for the object's identity.        *)
(***************************************************************************)
ChemicalSphere(id, x, y, vx, vy, atom) ==
    [id |-> id, x |-> x, y |-> y, vx |-> vx, vy |-> vy,
     radius |-> AtomRadius(atom), mass |-> AtomMass(atom), atom |-> atom, nan |-> FALSE]

\* Sphere.move
Move(s) ==
    IF s.nan THEN s
    ELSE [s EXCEPT !.vy = s.vy + Gravity, !.x = s.x + s.vx, !.y = s.y + s.vy + Gravity]

\* Sphere.equilibriate_temperature, with kb = 1 and alpha = 0.01:
\* cos(arctan2(vy, vx)) is vx / |v|, and arctan2(0, 0) is 0.
EquilibriumSpeed(s, T) == ISqrt(RDiv(2 * T * Scale, s.mass) * Scale)

Equilibriate(s, T) ==
    IF s.nan THEN s
    ELSE LET veq == EquilibriumSpeed(s, T)
             still == s.vx = 0 /\ s.vy = 0
             vcos == IF still THEN veq
                     ELSE RDiv(veq * UnitComponent(s.vx, s.vx, s.vy), Scale)
             vsin == IF still THEN 0
                     ELSE RDiv(veq * UnitComponent(s.vy, s.vx, s.vy), Scale)
         IN  [s EXCEPT !.vx = RDiv(vcos + 99 * s.vx, 100),
                       !.vy = RDiv(vsin + 99 * s.vy, 100)]

(***************************************************************************)
(* Sphere.check_sphere_collision: the elastic response.  A result is the   *)
(* two spheres after the call and what happened (out).                     *)
(***************************************************************************)
\* distance < self.radius + other.radius; false when a coordinate is nan.
Overlapping(s, o) ==
    /\ ~s.nan /\ ~o.nan
    /\ Distance(s.x - o.x, s.y - o.y) < (s.radius + o.radius) * Scale

\* p * mass, p = 2 * (self.vx*nx + self.vy*ny - other.vx*nx - other.vy*ny)
\*                 / (self.mass + other.mass)
Impulse(s, o, nx, ny, mass) ==
    LET rel == RDiv(s.vx * nx + s.vy * ny - o.vx * nx - o.vy * ny, Scale)
    IN  RDiv(2 * rel * mass, s.mass + o.mass)

\* 2 * overlap, overlap = 0.5 * (self.radius + other.radius - distance + 1):
\* the half is taken with the products overlap * nx, overlap * ny.
Overlap(s, o, distance) == (s.radius + o.radius) * Scale - distance + Scale

\* 0 / 0: nx, ny, p and with them every coordinate and velocity are nan.
NotANumber(s) == [s EXCEPT !.nan = TRUE, !.x = 0, !.y = 0, !.vx = 0, !.vy = 0]

SphereCollide(s, o) ==
    LET dx == s.x - o.x
        dy == s.y - o.y
        distance == Distance(dx, dy)
    IN  IF ~Overlapping(s, o) THEN [self |-> s, other |-> o, out |-> "none"]
        ELSE IF distance = 0
        THEN [self |-> NotANumber(s), other |-> NotANumber(o), out |-> "nan"]
        ELSE LET nx == UnitComponent(dx, dx, dy)
                 ny == UnitComponent(dy, dx, dy)
                 ps == Impulse(s, o, nx, ny, o.mass)
                 po == Impulse(s, o, nx, ny, s.mass)
                 ov == Overlap(s, o, distance)
             IN  [self |-> [s EXCEPT !.vx = s.vx - RDiv(ps * nx, Scale),
                                     !.vy = s.vy - RDiv(ps * ny, Scale),
                                     !.x = s.x + RDiv(ov * nx, 2 * Scale),
                                     !.y = s.y + RDiv(ov * ny, 2 * Scale)],
                  other |-> [o EXCEPT !.vx = o.vx + RDiv(po * nx, Scale),
                                      !.vy = o.vy + RDiv(po * ny, Scale),
                                      !.x = o.x - RDiv(ov * nx, 2 * Scale),
                                      !.y = o.y - RDiv(ov * ny, 2 * Scale)],
                  out |-> "elastic"]

(***************************************************************************)
(* ChemicalSphere.check_sphere_collision: the reaction.                    *)
(***************************************************************************)
\* Mutant: the "Pacman version" the code keeps in a comment, without the
\* test of the reaction partner.
PartnersPacman(s, o) == s.atom # o.atom

\* The pair takes the chemical path: not (self.atom == other.atom or
\* not self.atom.reaction_partner == other.atom.name).  Every sphere of a
\* Simulation is a ChemicalSphere.
Partners(s, o) == s.atom # o.atom /\ AtomPartner(s.atom) = o.atom

\* 0.5 * mass * (vx**2 + vy**2), in units.
KineticEnergy(s) ==
    LET v2 == s.vx * s.vx + s.vy * s.vy
    IN  RDiv(s.mass * (v2 \div Scale) + RDiv(s.mass * (v2 % Scale), Scale), 2)

\* Mutant: the comparison with the activation energy the wrong way round.
BelowActivationFlipped(s, o) ==
    /\ ~s.nan /\ ~o.nan
    /\ KineticEnergy(s) + KineticEnergy(o) > AtomActivation(s.atom) * Scale

\* total_kinetic_energy < self.atom.activation_energy; false on nan.
BelowActivation(s, o) ==
    /\ ~s.nan /\ ~o.nan
    /\ KineticEnergy(s) + KineticEnergy(o) < AtomActivation(s.atom) * Scale

\* Mutant: the product stays where the initiator was.
ReactInPlace(s, o) ==
    [s EXCEPT !.atom = "NO",
              !.vx = RDiv(s.vx, 2), !.vy = RDiv(s.vy, 2),
              !.radius = AtomRadius("NO"), !.mass = AtomMass("NO")]

\* The product: self becomes NO at the midpoint with half its velocity.
React(s, o) ==
    [s EXCEPT !.atom = "NO",
              !.x = RDiv(s.x + o.x, 2), !.y = RDiv(s.y + o.y, 2),
              !.vx = RDiv(s.vx, 2), !.vy = RDiv(s.vy, 2),
              !.radius = AtomRadius("NO"), !.mass = AtomMass("NO")]

\* other.x = -1000; other.y = -1000
Banish(o) == [o EXCEPT !.x = Sentinel, !.y = Sentinel]

ChemicalCollide(s, o) ==
    IF ~Partners(s, o) THEN SphereCollide(s, o)
    ELSE IF BelowActivation(s, o) THEN SphereCollide(s, o)
    ELSE IF Overlapping(s, o)
    THEN [self |-> React(s, o), other |-> Banish(o), out |-> "react"]
    ELSE [self |-> s, other |-> o, out |-> "none"]

(***************************************************************************)
(* Wall.                                                                   *)
(***************************************************************************)
Wall(x1, y1, x2, y2) == [x1 |-> x1, y1 |-> y1, x2 |-> x2, y2 |-> y2]

\* Mutant: the flip without the test of the direction of motion.
WallCheckUnguarded(wall, s) ==
    LET r == s.radius * Scale
    IN  IF s.nan THEN s
        ELSE IF wall.x1 = wall.x2
        THEN IF /\ wall.x1 - r < s.x /\ s.x < wall.x1 + r
                /\ \/ (wall.y1 < s.y /\ s.y < wall.y2)
                   \/ (wall.y2 < s.y /\ s.y < wall.y1)
             THEN [s EXCEPT !.vx = -s.vx]
             ELSE s
        ELSE IF wall.y1 = wall.y2
        THEN IF /\ wall.y1 - r < s.y /\ s.y < wall.y1 + r
                /\ \/ (wall.x1 < s.x /\ s.x < wall.x2)
                   \/ (wall.x2 < s.x /\ s.x < wall.x1)
             THEN [s EXCEPT !.vy = -s.vy]
             ELSE s
        ELSE s

\* Wall.check_collision
WallCheck(wall, s) ==
    LET r == s.radius * Scale
    IN  IF s.nan THEN s
        ELSE IF wall.x1 = wall.x2
        THEN IF /\ wall.x1 - r < s.x /\ s.x < wall.x1 + r
                /\ \/ (wall.y1 < s.y /\ s.y < wall.y2)
                   \/ (wall.y2 < s.y /\ s.y < wall.y1)
                /\ \/ (s.x < wall.x1 /\ s.vx > 0)
                   \/ (s.x > wall.x1 /\ s.vx < 0)
             THEN [s EXCEPT !.vx = -s.vx]
             ELSE s
        ELSE IF wall.y1 = wall.y2
        THEN IF /\ wall.y1 - r < s.y /\ s.y < wall.y1 + r
                /\ \/ (wall.x1 < s.x /\ s.x < wall.x2)
                   \/ (wall.x2 < s.x /\ s.x < wall.x1)
                /\ \/ (s.y < wall.y1 /\ s.vy > 0)
                   \/ (s.y > wall.y1 /\ s.vy < 0)
             THEN [s EXCEPT !.vy = -s.vy]
             ELSE s
        ELSE s

\* Simulation.create_side_walls: top, bottom, left, right.
SideWalls(w, h) ==
    << Wall(0, 0, w * Scale, 0),
       Wall(0, h * Scale, w * Scale, h * Scale),
       Wall(0, 0, 0, h * Scale),
       Wall(w * Scale, 0, w * Scale, h * Scale) >>

NumWalls == Len(SideWalls(0, 0))

(***************************************************************************)
(* Simulation: construction.                                               *)
(***************************************************************************)
\* The arenas and temperatures a Simulation is constructed with.
ArenaSizes == {100, 600}

Temperatures == {100, 6400}

\* Where create_spheres may put a sphere, and with what velocity:
\* x, y in whole units, vx, vy in fixed point.
InitPlacements ==
    { [x |-> 20, y |-> 20, vx |-> 0, vy |-> -Gravity],
      [x |-> 20, y |-> 20, vx |-> -2 * Scale, vy |-> 0],
      [x |-> 40, y |-> 20, vx |-> -Scale, vy |-> 0] }

\* x = randint(20, width - 20), y = randint(20, height - 20),
\* vx, vy = sqrt(temperature) / 20 * uniform(-0.5, 0.5)
CanCreate(p, w, h, T) ==
    LET vmax == RDiv(ISqrt(T) * Scale, 40)
    IN  /\ 20 <= p.x /\ p.x < w - 20
        /\ 20 <= p.y /\ p.y < h - 20
        /\ -vmax <= p.vx /\ p.vx < vmax
        /\ -vmax <= p.vy /\ p.vy < vmax

RECURSIVE CreateSpheres(_, _, _, _)
\* Simulation.create_spheres: every list of n spheres it may return.
CreateSpheres(n, w, h, T) ==
    IF n = 0 THEN { <<>> }
    ELSE { Append(ss, ChemicalSphere(n, p.x * Scale, p.y * Scale, p.vx, p.vy, a)) :
             ss \in CreateSpheres(n - 1, w, h, T),
             p \in { q \in InitPlacements : CanCreate(q, w, h, T) },
             a \in Reactive }

Ids == 1 .. (MaxSpheres + 1)

NoStep == [op |-> "none", i |-> 0, j |-> 0, out |-> "none"]

NoFlips == [id \in Ids |-> [w \in 1 .. NumWalls |-> 0]]

Init ==
    /\ width \in ArenaSizes
    /\ height \in ArenaSizes
    /\ temperature \in Temperatures
    /\ \E n \in 0 .. MaxSpheres : spheres \in CreateSpheres(n, width, height, temperature)
    /\ pc = "idle" /\ ph = 1 /\ i = 1 /\ j = 1
    /\ tick = 0
    /\ pre = spheres /\ last = NoStep
    /\ tickIds = <<>> /\ moved = [id \in Ids |-> 0] /\ early = {}
    /\ flips = NoFlips /\ banished = {}
    /\ pair = <<>> /\ pair0 = <<>> /\ epc = "off"

(***************************************************************************)
(* Simulation.update(), one statement at a time.  pc is "idle" between     *)
(* calls, "body" inside the loop over the spheres and "cull" before the    *)
(* final filter; ph is the statement of the loop body sphere i is at, and  *)
(* j the wall or the other sphere of the inner loop.                       *)
(***************************************************************************)
\* Mutant: the sphere is moved after its collisions are resolved.
BodyOrderMoveLast == << "wall", "pair", "move", "equil" >>

\* The statements of the loop body, in the order the code runs them.
BodyOrder == << "move", "wall", "pair", "equil" >>

Phase == BodyOrder[ph]

\* The statement after the last one of phase ph for sphere i.
Advance ==
    IF ph < Len(BodyOrder) THEN pc' = "body" /\ i' = i /\ ph' = ph + 1 /\ j' = 1
    ELSE IF i < Len(spheres) THEN pc' = "body" /\ i' = i + 1 /\ ph' = 1 /\ j' = 1
    ELSE pc' = "cull" /\ i' = i /\ ph' = 1 /\ j' = 1

\* The next turn of an inner loop over n items, or the next statement.
NextInner(n) ==
    IF j < n THEN pc' = "body" /\ i' = i /\ ph' = ph /\ j' = j + 1
    ELSE Advance

SimFrame == UNCHANGED <<width, height, temperature, pair, pair0, epc>>

BeginUpdate ==
    /\ pc = "idle" /\ tick < MaxTicks
    /\ tickIds' = [k \in 1 .. Len(spheres) |-> spheres[k].id]
    /\ moved' = [id \in Ids |-> 0]
    /\ early' = {}
    /\ flips' = NoFlips
    /\ banished' = {}
    /\ pre' = spheres
    /\ last' = [op |-> "begin", i |-> 0, j |-> 0, out |-> "none"]
    /\ IF Len(spheres) = 0 THEN pc' = "cull" ELSE pc' = "body"
    /\ i' = 1 /\ ph' = 1 /\ j' = 1
    /\ UNCHANGED <<spheres, tick>>
    /\ SimFrame

DoMove ==
    /\ pc = "body" /\ Phase = "move"
    /\ spheres' = [spheres EXCEPT ![i] = Move(@)]
    /\ moved' = [moved EXCEPT ![spheres[i].id] = @ + 1]
    /\ pre' = spheres
    /\ last' = [op |-> "move", i |-> i, j |-> 0, out |-> "none"]
    /\ Advance
    /\ UNCHANGED <<tick, tickIds, early, flips, banished>>
    /\ SimFrame

DoWall ==
    /\ pc = "body" /\ Phase = "wall"
    /\ spheres' = [spheres EXCEPT ![i] = WallCheck(SideWalls(width, height)[j], @)]
    /\ pre' = spheres
    /\ last' = [op |-> "wall", i |-> i, j |-> j,
                out |-> IF spheres' = spheres THEN "none" ELSE "flip"]
    /\ flips' = IF spheres' = spheres THEN flips
                 ELSE [flips EXCEPT ![spheres[i].id][j] = @ + 1]
    /\ NextInner(NumWalls)
    /\ UNCHANGED <<tick, tickIds, moved, early, banished>>
    /\ SimFrame

\* if sphere != other: sphere.check_sphere_collision(other)
DoPair ==
    /\ pc = "body" /\ Phase = "pair" /\ j # i
    /\ LET r == ChemicalCollide(spheres[i], spheres[j])
       IN  /\ spheres' = [spheres EXCEPT ![i] = r.self, ![j] = r.other]
           /\ last' = [op |-> "pair", i |-> i, j |-> j, out |-> r.out]
           /\ banished' = IF r.out = "react" THEN banished \cup {spheres[j].id}
                           ELSE banished
    /\ early' = IF moved[spheres[j].id] = 0 THEN early \cup {spheres[j].id} ELSE early
    /\ pre' = spheres
    /\ NextInner(Len(spheres))
    /\ UNCHANGED <<tick, tickIds, moved, flips>>
    /\ SimFrame

\* The turn of the inner loop with other = sphere.
SkipSelf ==
    /\ pc = "body" /\ Phase = "pair" /\ j = i
    /\ pre' = spheres
    /\ last' = [op |-> "skip", i |-> i, j |-> j, out |-> "none"]
    /\ NextInner(Len(spheres))
    /\ UNCHANGED <<spheres, tick, tickIds, moved, early, flips, banished>>
    /\ SimFrame

DoEquil ==
    /\ pc = "body" /\ Phase = "equil"
    /\ spheres' = [spheres EXCEPT ![i] = Equilibriate(@, temperature)]
    /\ pre' = spheres
    /\ last' = [op |-> "equil", i |-> i, j |-> 0, out |-> "none"]
    /\ Advance
    /\ UNCHANGED <<tick, tickIds, moved, early, flips, banished>>
    /\ SimFrame

\* Mutant: "and" for "or" in the test of the filter.
OutOfBoundsBoth(s, w, h) ==
    /\ ~s.nan
    /\ Abs(s.x) > w * 2 * Scale
    /\ Abs(s.y) > h * 2 * Scale

\* abs(sp.x) > self.width * 2 or abs(sp.y) > self.height * 2; false on nan.
OutOfBounds(s, w, h) ==
    /\ ~s.nan
    /\ \/ Abs(s.x) > w * 2 * Scale
       \/ Abs(s.y) > h * 2 * Scale

Keep(s) == ~OutOfBounds(s, width, height)

\* self.spheres[:] = [sp for sp in self.spheres if not (...)]
DoCull ==
    /\ pc = "cull"
    /\ spheres' = SelectSeq(spheres, Keep)
    /\ pre' = spheres
    /\ last' = [op |-> "cull", i |-> 0, j |-> 0, out |-> "none"]
    /\ tick' = tick + 1
    /\ pc' = "idle" /\ i' = 1 /\ ph' = 1 /\ j' = 1
    /\ UNCHANGED <<tickIds, moved, early, flips, banished>>
    /\ SimFrame

Next == BeginUpdate \/ DoMove \/ DoWall \/ DoPair \/ SkipSelf \/ DoEquil \/ DoCull

Spec == Init /\ [][Next]_vars

(***************************************************************************)
(* Exact rational numbers, n / d with d > 0, in lowest terms.              *)
(***************************************************************************)
RECURSIVE GCD(_, _)
GCD(a, b) == IF b = 0 THEN a ELSE GCD(b, a % b)

Q(n, d) ==
    LET g == GCD(Abs(n), Abs(d))
        sgn == IF d < 0 THEN -1 ELSE 1
    IN  [n |-> sgn * (n \div g), d |-> sgn * (d \div g)]

QInt(k) == [n |-> k, d |-> 1]

\* Common factors are cancelled before the products are formed.
QAdd(a, b) ==
    LET g == GCD(a.d, b.d)
    IN  Q(a.n * (b.d \div g) + b.n * (a.d \div g), (a.d \div g) * b.d)

QSub(a, b) == QAdd(a, [n |-> -b.n, d |-> b.d])

QMul(a, b) ==
    LET g == GCD(Abs(a.n), b.d)
        h == GCD(Abs(b.n), a.d)
    IN  Q((a.n \div g) * (b.n \div h), (a.d \div h) * (b.d \div g))

\* a / b, b # 0
QDiv(a, b) ==
    QMul(a, IF b.n < 0 THEN [n |-> -b.d, d |-> -b.n] ELSE [n |-> b.d, d |-> b.n])

QLess(a, b) ==
    LET g == GCD(a.d, b.d)
    IN  a.n * (b.d \div g) < b.n * (a.d \div g)

IsSquare(n) == n >= 0 /\ ISqrt(n) * ISqrt(n) = n

\* The square root of a rational that has one.
QSqrt(a) == [n |-> ISqrt(a.n), d |-> ISqrt(a.d)]

(***************************************************************************)
(* Sphere.check_sphere_collision in exact arithmetic, statement by         *)
(* statement, on spheres whose x, y, vx, vy are rationals.                 *)
(***************************************************************************)
\* Sphere.__init__: mass is a list, empty for mass=None.
Sphere(x, y, vx, vy, radius, mass) ==
    [x |-> QInt(x), y |-> QInt(y), vx |-> QInt(vx), vy |-> QInt(vy),
     radius |-> radius,
     mass |-> IF mass = <<>> THEN radius * radius ELSE mass[1]]

\* dx**2 + dy**2
SquaredDistance(s, o) ==
    LET dx == QSub(s.x, o.x)
        dy == QSub(s.y, o.y)
    IN  QAdd(QMul(dx, dx), QMul(dy, dy))

\* Mutant: the impulse without its factor 2.
ImpulsePInelastic(s, o, nx, ny) ==
    QDiv(QSub(QSub(QAdd(QMul(s.vx, nx), QMul(s.vy, ny)), QMul(o.vx, nx)),
              QMul(o.vy, ny)),
         QInt(s.mass + o.mass))

\* p = 2 * (self.vx*nx + self.vy*ny - other.vx*nx - other.vy*ny)
\*       / (self.mass + other.mass)
ImpulseP(s, o, nx, ny) ==
    QDiv(QMul(QInt(2),
              QSub(QSub(QAdd(QMul(s.vx, nx), QMul(s.vy, ny)), QMul(o.vx, nx)),
                   QMul(o.vy, ny))),
         QInt(s.mass + o.mass))

\* Mutant: the overlap without its factor 0.5.
ExactOverlapWhole(s, o, distance) ==
    QAdd(QSub(QInt(s.radius + o.radius), distance), QInt(1))

\* overlap = 0.5 * (self.radius + other.radius - distance + 1)
ExactOverlap(s, o, distance) ==
    QMul(Q(1, 2), QAdd(QSub(QInt(s.radius + o.radius), distance), QInt(1)))

ExactCollide(s, o) ==
    LET dx == QSub(s.x, o.x)
        dy == QSub(s.y, o.y)
        distance == QSqrt(SquaredDistance(s, o))
    IN  IF ~QLess(distance, QInt(s.radius + o.radius))
        THEN [self |-> s, other |-> o, out |-> "none"]
        ELSE LET nx == QDiv(dx, distance)
                 ny == QDiv(dy, distance)
                 p == ImpulseP(s, o, nx, ny)
                 overlap == ExactOverlap(s, o, distance)
             IN  [self |-> [s EXCEPT
                             !.vx = QSub(s.vx, QMul(QMul(p, QInt(o.mass)), nx)),
                             !.vy = QSub(s.vy, QMul(QMul(p, QInt(o.mass)), ny)),
                             !.x = QAdd(s.x, QMul(overlap, nx)),
                             !.y = QAdd(s.y, QMul(overlap, ny))],
                  other |-> [o EXCEPT
                             !.vx = QAdd(o.vx, QMul(QMul(p, QInt(s.mass)), nx)),
                             !.vy = QAdd(o.vy, QMul(QMul(p, QInt(s.mass)), ny)),
                             !.x = QSub(o.x, QMul(overlap, nx)),
                             !.y = QSub(o.y, QMul(overlap, ny))],
                  out |-> "elastic"]

(***************************************************************************)
(* SpecElastic: one call of Sphere.check_sphere_collision on a pair with   *)
(* distinct centres at a rational distance.                                *)
(***************************************************************************)
Coords == (-MaxCoord) .. MaxCoord

SelfVelocities == {-1, 0, 2}

OtherVelocities == {0, 1}

SelfRadii == {1, 4}

OtherRadii == {2}

SelfMasses == { <<>>, <<1>> }

OtherMasses == { <<>>, <<3>> }

ElasticPairs ==
    { << Sphere(x, y, vx, vy, r, m), Sphere(0, 0, wx, wy, q, k) >> :
        x \in Coords, y \in Coords, vx \in SelfVelocities, vy \in SelfVelocities,
        r \in SelfRadii, m \in SelfMasses,
        wx \in OtherVelocities, wy \in OtherVelocities, q \in OtherRadii,
        k \in OtherMasses }

InitElastic ==
    /\ pair0 \in { pr \in ElasticPairs :
                     LET d2 == SquaredDistance(pr[1], pr[2])
                     IN  d2.n > 0 /\ IsSquare(d2.n) /\ IsSquare(d2.d) }
    /\ pair = pair0
    /\ epc = "ready"
    /\ width = 0 /\ height = 0 /\ temperature = 0
    /\ spheres = <<>> /\ pc = "off" /\ ph = 1 /\ i = 1 /\ j = 1 /\ tick = 0
    /\ pre = <<>> /\ last = NoStep
    /\ tickIds = <<>> /\ moved = [id \in Ids |-> 0] /\ early = {}
    /\ flips = NoFlips /\ banished = {}

\* self.check_sphere_collision(other): both spheres are updated in place.
Resolve ==
    /\ epc = "ready"
    /\ LET r == ExactCollide(pair[1], pair[2])
       IN  pair' = << r.self, r.other >>
    /\ epc' = "done"
    /\ UNCHANGED <<width, height, temperature, spheres, pc, ph, i, j, tick,
                   pre, last, tickIds, moved, early, flips, banished, pair0>>

NextElastic == Resolve

SpecElastic == InitElastic /\ [][NextElastic]_vars

(***************************************************************************)
(* The claims about Simulation.update() (specification Spec).  After a     *)
(* step, last names it and pre is the list before it: S0, O0 are the       *)
(* initiating and the other sphere before a pairwise check, S1, O1 after.  *)
(***************************************************************************)
PairStep == last.op = "pair"

S0 == pre[last.i]

O0 == pre[last.j]

S1 == spheres[last.i]

O1 == spheres[last.j]

\* |x| > 2 * width or |y| > 2 * height
Beyond(s) ==
    /\ ~s.nan
    /\ (Abs(s.x) > 2 * width * Scale \/ Abs(s.y) > 2 * height * Scale)

AtSentinel(s) == ~s.nan /\ s.x = Sentinel /\ s.y = Sentinel

TotalEnergy(s, o) == KineticEnergy(s) + KineticEnergy(o)

\* The spheres other than those at positions a and b are as before the step.
OthersUnchanged(a, b) ==
    /\ Len(spheres) = Len(pre)
    /\ \A k \in 1 .. Len(spheres) : k \notin {a, b} => spheres[k] = pre[k]

\* A reaction case: partners, overlapping, with at least the initiator's
\* activation energy.
ReactionCase(s, o) ==
    /\ ~s.nan /\ ~o.nan
    /\ Partners(s, o)
    /\ Overlapping(s, o)
    /\ TotalEnergy(s, o) >= AtomActivation(s.atom) * Scale

\* C1: when two mutual partners overlap with at least the initiator's
\* activation energy, check_sphere_collision turns the initiator into NO,
\* leaves the other's species, puts the other at a position with
\* |x| > 2 * width or |y| > 2 * height, and the other is no longer in the
\* list at the end of that update().
C1_ReactionBanishesAndCulls ==
    /\ (PairStep /\ ReactionCase(S0, O0)) =>
          /\ S1.atom = "NO"
          /\ O1.atom = O0.atom /\ O1.atom # "NO"
          /\ Beyond(O1)
    /\ last.op = "cull" =>
          \A k \in 1 .. Len(spheres) : spheres[k].id \notin banished

\* C7: every position and velocity of every sphere is a number in every
\* reachable state: pairwise resolution never divides zero by a zero
\* centre distance.
C7_NoNotANumber == \A k \in 1 .. Len(spheres) : ~spheres[k].nan

\* C2: for mutual partners with total kinetic energy strictly below the
\* initiator's activation energy, check_sphere_collision keeps species,
\* radius and mass of both, sends neither to the sentinel and yields exactly
\* what Sphere.check_sphere_collision yields on that pair.
C2_BelowActivationIsElastic ==
    (/\ PairStep /\ ~S0.nan /\ ~O0.nan
     /\ S0.atom # O0.atom /\ AtomPartner(S0.atom) = O0.atom
     /\ TotalEnergy(S0, O0) < AtomActivation(S0.atom) * Scale) =>
        /\ S1.atom = S0.atom /\ S1.radius = S0.radius /\ S1.mass = S0.mass
        /\ O1.atom = O0.atom /\ O1.radius = O0.radius /\ O1.mass = O0.mass
        /\ AtSentinel(O1) => AtSentinel(O0)
        /\ AtSentinel(S1) => AtSentinel(S0)
        /\ LET e == SphereCollide(S0, O0)
           IN  S1 = e.self /\ O1 = e.other /\ last.out = e.out
        /\ OthersUnchanged(last.i, last.j)

\* C2 witness: such a pair overlapped and bounced.
C2_Witness ==
    /\ PairStep /\ last.out = "elastic"
    /\ Partners(S0, O0)
    /\ TotalEnergy(S0, O0) < AtomActivation(S0.atom) * Scale
    /\ S1.vx # S0.vx

(***************************************************************************)
(* C5: Wall.check_collision.                                               *)
(***************************************************************************)
Between(a, v, b) == (a < v /\ v < b) \/ (b < v /\ v < a)

\* The sphere's extent overlaps the wall's line, its centre is strictly
\* between the endpoints, and it moves towards the wall from its side.
WallHit(wall, s) ==
    IF wall.x1 = wall.x2
    THEN /\ Abs(s.x - wall.x1) < s.radius * Scale
         /\ Between(wall.y1, s.y, wall.y2)
         /\ (s.x - wall.x1) * s.vx < 0
    ELSE /\ wall.y1 = wall.y2
         /\ Abs(s.y - wall.y1) < s.radius * Scale
         /\ Between(wall.x1, s.x, wall.x2)
         /\ (s.y - wall.y1) * s.vy < 0

\* t is s after the check: the perpendicular velocity negated exactly on a
\* hit, nothing else changed.
WallLaw(wall, s, t) ==
    IF s.nan THEN t = s
    ELSE IF WallHit(wall, s)
    THEN IF wall.x1 = wall.x2 THEN t = [s EXCEPT !.vx = -s.vx]
                              ELSE t = [s EXCEPT !.vy = -s.vy]
    ELSE t = s

\* Walls besides the four side walls: the side walls with their endpoints
\* swapped, and short walls across the corner the spheres start in.
TestWalls ==
    LET sw == SideWalls(width, height)
    IN  { sw[k] : k \in 1 .. NumWalls }
          \cup { Wall(sw[k].x2, sw[k].y2, sw[k].x1, sw[k].y1) : k \in 1 .. NumWalls }
          \cup { Wall(30 * Scale, 0, 30 * Scale, 50 * Scale),
                 Wall(30 * Scale, 50 * Scale, 30 * Scale, 0),
                 Wall(30 * Scale, 0, 30 * Scale, 10 * Scale),
                 Wall(50 * Scale, 25 * Scale, 0, 25 * Scale),
                 Wall(0, 25 * Scale, 50 * Scale, 25 * Scale),
                 Wall(30 * Scale, 25 * Scale, 30 * Scale, 25 * Scale) }

\* C5: check_collision negates the velocity component perpendicular to the
\* wall exactly when the sphere overlaps the wall line, its centre is
\* strictly between the endpoints and it moves towards the wall from its
\* side; otherwise the velocity is unchanged; the position never changes; a
\* second check by the same wall changes nothing, and no wall flips a
\* sphere twice in one tick.  The law is checked for the walls of TestWalls
\* on the sphere the sweep is at, in every state, and for the wall check
\* update() has just made.
C5_WallFlip ==
    /\ \A k \in {i} \cap (1 .. Len(spheres)) : \A wall \in TestWalls :
          LET t == WallCheck(wall, spheres[k])
          IN  WallLaw(wall, spheres[k], t) /\ WallCheck(wall, t) = t
    /\ last.op = "wall" =>
          /\ WallLaw(SideWalls(width, height)[last.j], pre[last.i], spheres[last.i])
          /\ OthersUnchanged(last.i, last.i)
    /\ \A id \in Ids : \A w \in 1 .. NumWalls : flips[id][w] <= 1

\* C5 witness: a side wall has just flipped a sphere that moved into it.
C5_Witness ==
    /\ last.op = "wall" /\ last.out = "flip"
    /\ WallHit(SideWalls(width, height)[last.j], pre[last.i])
    /\ spheres[last.i].vx = -pre[last.i].vx /\ pre[last.i].vx # 0

(***************************************************************************)
(* C6: the list during and after update().                                 *)
(***************************************************************************)
IdsOf(ss) == [k \in 1 .. Len(ss) |-> ss[k].id]

NotBeyond(s) == ~Beyond(s)

\* C6: during the sweep the list keeps its members and their order; the
\* final filter removes exactly the spheres with |x| > 2 * width or
\* |y| > 2 * height and keeps the others in order; after update() no sphere
\* of the list is beyond those bounds, and an empty list stays empty.
C6_DeferredCull ==
    /\ pc \in {"body", "cull"} => IdsOf(spheres) = tickIds
    /\ last.op = "cull" =>
          /\ spheres = SelectSeq(pre, NotBeyond)
          /\ IdsOf(pre) = tickIds
          /\ \A k \in 1 .. Len(spheres) : ~Beyond(spheres[k])
          /\ pre = <<>> => spheres = <<>>

\* C6 witness: the filter removed a sphere banished in this tick, which was
\* in the list until then, and kept another.
C6_Witness ==
    /\ last.op = "cull"
    /\ banished # {}
    /\ \E k \in 1 .. Len(pre) : pre[k].id \in banished /\ Beyond(pre[k])
    /\ Len(spheres) < Len(pre) /\ Len(spheres) > 0

(***************************************************************************)
(* C8: when move() runs.                                                   *)
(***************************************************************************)
\* By the end of the sweep every sphere of the list was moved exactly once.
MovedOnce ==
    /\ \A id \in Ids : moved[id] <= 1
    /\ pc = "cull" => \A id \in Ids :
          moved[id] = IF \E k \in 1 .. Len(tickIds) : tickIds[k] = id THEN 1 ELSE 0

\* A sphere's wall checks, the pairwise checks it initiates and its
\* relaxation come after its move of the tick.
OwnChecksAfterMove ==
    (pc = "body" /\ Phase # "move") => moved[spheres[i].id] = 1

\* C8 as stated: move() runs exactly once per sphere and tick, and before
\* any collision resolution of the tick reads or changes that sphere, the
\* pairwise checks of earlier spheres included.
C8_MoveBeforeAnyResolution ==
    /\ MovedOnce
    /\ OwnChecksAfterMove
    /\ early = {}

\* C8 amended: move() runs exactly once per sphere and tick, before the
\* wall checks of that sphere and the pairwise checks that sphere initiates;
\* the sphere may be the other of an earlier sphere's check before it moves.
C8_MoveBeforeOwnResolution ==
    /\ MovedOnce
    /\ OwnChecksAfterMove
    /\ \A id \in early : \E k \in 1 .. Len(tickIds) : tickIds[k] = id /\ k > 1

\* C8 witness: at the end of a sweep, a sphere that an earlier sphere's
\* pairwise check changed before its own move.
C8_Witness ==
    /\ pc = "cull"
    /\ early # {}
    /\ \A k \in 1 .. Len(tickIds) : moved[tickIds[k]] = 1

(***************************************************************************)
(* C9: separation of an overlapping pair.  The fixed-point normal is       *)
(* rounded to 0.001, so a displacement of up to 22.5 is exact to 0.05.     *)
(***************************************************************************)
Near(a, b) == Abs(a - b) <= Scale \div 20

\* Both spheres are displaced by the same amount in opposite directions,
\* along the centre line, to a centre distance of r_a + r_b + 1: each by
\* half the overlap plus slack.
Separated(s, o, s1, o1) ==
    LET dx == s.x - o.x
        dy == s.y - o.y
        mx == s1.x - s.x
        my == s1.y - s.y
    IN  /\ ~s1.nan /\ ~o1.nan
        /\ o1.x - o.x = -mx /\ o1.y - o.y = -my
        /\ mx * dx + my * dy > 0
        /\ Near(Distance(s1.x - o1.x, s1.y - o1.y), (s.radius + o.radius + 1) * Scale)
        /\ Near(2 * Distance(mx, my),
                (s.radius + o.radius + 1) * Scale - Distance(dx, dy))

Apart(s, o) == ~s.nan /\ ~o.nan /\ (s.x # o.x \/ s.y # o.y)

\* C9 as stated: whenever pairwise resolution runs on two spheres with
\* 0 < d < r_a + r_b, both are displaced apart along the normal by half the
\* overlap plus slack, in every branch, the reaction included.
C9_SeparatedInEveryBranch ==
    (PairStep /\ Apart(S0, O0) /\ Overlapping(S0, O0)) => Separated(S0, O0, S1, O1)

\* C9 amended: the displacement is applied whenever the elastic branch runs
\* on such a pair; when the pair reacts there is none: the initiator goes to
\* the midpoint of the two centres and the other to the sentinel; and one of
\* the two happens.
C9_SeparatedUnlessReacted ==
    (PairStep /\ Apart(S0, O0) /\ Overlapping(S0, O0)) =>
        /\ last.out \in {"elastic", "react"}
        /\ last.out = "react" <=> ReactionCase(S0, O0)
        /\ last.out = "elastic" => Separated(S0, O0, S1, O1)
        /\ last.out = "react" =>
              /\ Abs(2 * S1.x - (S0.x + O0.x)) <= 1
              /\ Abs(2 * S1.y - (S0.y + O0.y)) <= 1
              /\ AtSentinel(O1)
              /\ ~Separated(S0, O0, S1, O1)

\* C9 witness: an overlapping pair has reacted; the initiator sits at the
\* midpoint, not pushed away.
C9_Witness ==
    /\ PairStep /\ last.out = "react"
    /\ Apart(S0, O0) /\ Overlapping(S0, O0)
    /\ AtSentinel(O1) /\ ~AtSentinel(O0)
    /\ S1.x # S0.x

(***************************************************************************)
(* C10: the reaction is irreversible.                                      *)
(***************************************************************************)
ReactiveCount(ss) == Cardinality({ k \in 1 .. Len(ss) : ss[k].atom \in Reactive })

\* A sphere that is NO is still NO after the step, if it is still there.
NOStaysNO ==
    \A k \in 1 .. Len(spheres) : \A m \in 1 .. Len(spheres') :
        (spheres[k].atom = "NO" /\ spheres'[m].id = spheres[k].id)
            => spheres'[m].atom = "NO"

\* A pairwise check with a NO sphere on either side changes no species and
\* banishes nothing.
NOIsInert ==
    (PairStep /\ (S0.atom = "NO" \/ O0.atom = "NO")) =>
        /\ last.out # "react"
        /\ S1.atom = S0.atom /\ O1.atom = O0.atom
        /\ AtSentinel(O1) => AtSentinel(O0)
        /\ AtSentinel(S1) => AtSentinel(S0)

\* C10: a sphere that is NO never changes species again and never makes
\* another change species or be banished, as initiator or as other; the
\* number of reactive spheres in the list and the length of the list never
\* increase.
C10_Irreversible ==
    [][/\ NOStaysNO
       /\ NOIsInert'
       /\ ReactiveCount(spheres') <= ReactiveCount(spheres)
       /\ Len(spheres') <= Len(spheres)]_vars

\* C10 witness: a NO sphere and a reactive sphere overlapped in a pairwise
\* check and bounced.
C10_Witness ==
    /\ PairStep /\ last.out = "elastic"
    /\ (S0.atom = "NO" \/ O0.atom = "NO")
    /\ (S0.atom \in Reactive \/ O0.atom \in Reactive)
    /\ ReactiveCount(spheres) < Len(spheres)

(***************************************************************************)
(* The claims about the elastic response (specification SpecElastic), in   *)
(* exact arithmetic: pair0 is the pair before the call and pair after it.  *)
(***************************************************************************)
QSquare(a) == QMul(a, a)

QLeq(a, b) == ~QLess(b, a)

SumOfRadii(pr) == QInt(pr[1].radius + pr[2].radius)

\* The call found 0 < d < r_a + r_b.
ElasticCase ==
    /\ epc = "done"
    /\ QLess(SquaredDistance(pair0[1], pair0[2]), QSquare(SumOfRadii(pair0)))

MomentumX(pr) ==
    QAdd(QMul(QInt(pr[1].mass), pr[1].vx), QMul(QInt(pr[2].mass), pr[2].vx))

MomentumY(pr) ==
    QAdd(QMul(QInt(pr[1].mass), pr[1].vy), QMul(QInt(pr[2].mass), pr[2].vy))

Energy(pr) ==
    QMul(Q(1, 2),
         QAdd(QMul(QInt(pr[1].mass), QAdd(QSquare(pr[1].vx), QSquare(pr[1].vy))),
              QMul(QInt(pr[2].mass), QAdd(QSquare(pr[2].vx), QSquare(pr[2].vy)))))

\* The velocity of s along and across the centre line of pair0, times d.
Along(s) ==
    QAdd(QMul(s.vx, QSub(pair0[1].x, pair0[2].x)),
         QMul(s.vy, QSub(pair0[1].y, pair0[2].y)))

Across(s) ==
    QSub(QMul(s.vx, QSub(pair0[1].y, pair0[2].y)),
         QMul(s.vy, QSub(pair0[1].x, pair0[2].x)))

\* v_a' = ((m_a - m_b) v_a + 2 m_b v_b) / (m_a + m_b) along the normal, and
\* likewise for b; the velocity across the normal is kept.
OneDimensionalFormula ==
    LET ma == pair0[1].mass
        mb == pair0[2].mass
    IN  /\ QMul(QInt(ma + mb), Along(pair[1])) =
              QAdd(QMul(QInt(ma - mb), Along(pair0[1])),
                   QMul(QInt(2 * mb), Along(pair0[2])))
        /\ QMul(QInt(ma + mb), Along(pair[2])) =
              QAdd(QMul(QInt(mb - ma), Along(pair0[2])),
                   QMul(QInt(2 * ma), Along(pair0[1])))
        /\ Across(pair[1]) = Across(pair0[1])
        /\ Across(pair[2]) = Across(pair0[2])

\* Masses 1 and 3, velocities (2, 0) and (0, 0), normal (1, 0).
ExampleInput ==
    /\ pair0[1].mass = 1 /\ pair0[2].mass = 3
    /\ pair0[1].vx = QInt(2) /\ pair0[1].vy = QInt(0)
    /\ pair0[2].vx = QInt(0) /\ pair0[2].vy = QInt(0)
    /\ pair0[1].y = pair0[2].y /\ QLess(pair0[2].x, pair0[1].x)

\* C3: the elastic branch keeps the total momentum (per component) and the
\* total kinetic energy of an overlapping pair with distinct centres, and
\* changes the velocities by the 1D elastic-collision formula along the
\* normal: masses 1 and 3 with normal velocities 2 and 0 give -1 and 1.
C3_ElasticConservation ==
    ElasticCase =>
        /\ MomentumX(pair) = MomentumX(pair0)
        /\ MomentumY(pair) = MomentumY(pair0)
        /\ Energy(pair) = Energy(pair0)
        /\ OneDimensionalFormula
        /\ ExampleInput =>
              /\ pair[1].vx = QInt(-1) /\ pair[1].vy = QInt(0)
              /\ pair[2].vx = QInt(1) /\ pair[2].vy = QInt(0)

\* C3 witness: the example pair after the call.
C3_Witness ==
    /\ ElasticCase /\ ExampleInput
    /\ pair[1].vx = QInt(-1) /\ pair[2].vx = QInt(1)

\* C4: after the elastic resolution of a pair with 0 < d < r_a + r_b the
\* centre distance is at least r_a + r_b and at most r_a + r_b + 1, and the
\* two spheres were displaced by the same amount, half the overlap plus
\* slack, in opposite directions along the centre line.
C4_SeparationDistance ==
    ElasticCase =>
        LET R == SumOfRadii(pair0)
            d == QSqrt(SquaredDistance(pair0[1], pair0[2]))
            dx == QSub(pair0[1].x, pair0[2].x)
            dy == QSub(pair0[1].y, pair0[2].y)
            mx == QSub(pair[1].x, pair0[1].x)
            my == QSub(pair[1].y, pair0[1].y)
            after == SquaredDistance(pair[1], pair[2])
            half == QMul(Q(1, 2), QAdd(QSub(R, d), QInt(1)))
        IN  /\ QLeq(QSquare(R), after)
            /\ QLeq(after, QSquare(QAdd(R, QInt(1))))
            /\ QSub(pair[2].x, pair0[2].x) = QSub(QInt(0), mx)
            /\ QSub(pair[2].y, pair0[2].y) = QSub(QInt(0), my)
            /\ QAdd(QSquare(mx), QSquare(my)) = QSquare(half)
            /\ QSub(QMul(mx, dy), QMul(my, dx)) = QInt(0)
            /\ QLess(QInt(0), QAdd(QMul(mx, dx), QMul(my, dy)))

\* C4 witness: a pair on a diagonal centre line, pushed to r_a + r_b + 1.
C4_Witness ==
    /\ ElasticCase
    /\ pair0[1].x # pair0[2].x /\ pair0[1].y # pair0[2].y
    /\ pair[1].x # pair0[1].x /\ pair[2].y # pair0[2].y
    /\ SquaredDistance(pair[1], pair[2]) = QSquare(QAdd(SumOfRadii(pair0), QInt(1)))

=============================================================================
